---- MODULE Spec2Model ----
(***************************************************************************)
(* Model of src/scheduler.py: LearningRateScheduler and                    *)
(* TriStageLRScheduler (construction, _decide_stage, step, set_lr, get_lr, *)
(* get_last_lr) together with the optimizer's param_groups they write.     *)
(*                                                                         *)
(* Numbers.  Python floats are modelled in fixed point.  A learning rate   *)
(* r is the integer r / 1e-7 (so 1e-3 is 10000 and 1e-5 is 100); a scale    *)
(* argument (init_lr_scale, final_lr_scale) s is the integer s * ONE; a    *)
(* logarithm, an exponent or an exponential f is the integer f * FINE, and *)
(* warmup_rate is held in ONE-ths of a rate unit.  Every division and      *)
(* product rounds to the nearest representable value, as float arithmetic  *)
(* does, at a coarser precision: the logarithm and the exponential are    *)
(* accurate to a few FINE-ths, so a computed rate is the code's rate       *)
(* rounded to the rate unit.                                               *)
(* A phase ratio is a number of RatioDen-ths; RatioDen is a power of two,  *)
(* so the float sum and the float products of such ratios are exact.       *)
(* Python's None is the empty tuple, a given optional value v is <<v>>.    *)
(* Two rates that differ by a float rounding error only (the decay value   *)
(* at offset decay_steps and final_lr) can coincide at this precision, so  *)
(* no property below rests on such a pair being equal or different.        *)
(*                                                                         *)
(* Inputs.  __init__ checks the type of warmup_steps and total_steps only  *)
(* and the sign of no phase length or ratio, so negative lengths and       *)
(* ratios are inputs; args.nonint names the argument passed as a float of  *)
(* integral value, if any.  The optimizer has one or more parameter groups.*)
(* The optimizer is duck-typed: a group may be a read-only mapping, whose   *)
(* item assignment raises TypeError (frozen names such a group).           *)
(***************************************************************************)
EXTENDS Integers, Sequences, FiniteSets, TLC

\* ------------------------------------------------------------------ bounds
NegPhase == 1
MaxPhase == 2
MaxTotal == 4
MaxSteps == 12
MaxTail == 5
MaxGroups == 2

\* ------------------------------------------------------- fixed-point reals
ONE == 10000
FINE == 100000000
LIMB == 10000
RatioDen == 4
LN2 == 69314718

None == <<>>
Some(v) == <<v>>

Abs(x) == IF x < 0 THEN -x ELSE x

\* a / b rounded to the nearest integer (float division rounds to nearest)
RoundDiv(a, b) ==
    LET q == (2 * Abs(a) + Abs(b)) \div (2 * Abs(b))
    IN  IF (a < 0) # (b < 0) THEN -q ELSE q

\* rate * scale -> rate (scale in ONE-ths)
FMul(a, b) == RoundDiv(a * b, ONE)
\* rate / rate -> scale in ONE-ths
FDiv(a, b) == RoundDiv(a * ONE, b)

\* a * b / FINE rounded to the nearest integer, for naturals a and b, computed
\* on the two LIMB-digits of each factor so that no intermediate value
\* exceeds 32 bits
FineMulNat(a, b) ==
    LET a1 == a \div LIMB
        a0 == a % LIMB
        b1 == b \div LIMB
        b0 == b % LIMB
    IN  a1 * b1
        + (a1 * b0 + a0 * b1 + (a0 * b0 + FINE \div 2) \div LIMB) \div LIMB

\* rate * factor -> rate, factor * factor -> factor (factor in FINE-ths)
FineMul(a, b) ==
    LET q == FineMulNat(Abs(a), Abs(b))
    IN  IF (a < 0) # (b < 0) THEN -q ELSE q

\* a * FINE / b rounded to the nearest integer, by long division in two
\* LIMB-digits
FineDiv(a, b) ==
    LET n  == Abs(a)
        d  == Abs(b)
        q1 == (n * LIMB) \div d
        r1 == (n * LIMB) % d
        q  == q1 * LIMB + RoundDiv(r1 * LIMB, d)
    IN  IF (a < 0) # (b < 0) THEN -q ELSE q

\* int(x / den): Python's int() truncates toward zero
TruncDiv(x, den) == IF x >= 0 THEN x \div den ELSE -((-x) \div den)

RECURSIVE Pow2(_)
Pow2(k) == IF k = 0 THEN 1 ELSE 2 * Pow2(k - 1)

\* p/n + p*z2/(n+2) + ... up to the power `last`: the terms of the
\* logarithm's series from z^n on, p being z^n and z2 being z^2
RECURSIVE LnTerms(_, _, _, _)
LnTerms(p, z2, n, last) ==
    IF n > last \/ p = 0 THEN 0
    ELSE RoundDiv(p, n) + LnTerms(FineMul(p, z2), z2, n + 2, last)

\* number of doublings (negative: halvings) that bring x into [0.75, 1.5]
RECURSIVE LnShift(_)
LnShift(x) ==
    IF 2 * x > 3 * ONE THEN LnShift(RoundDiv(x, 2)) - 1
    ELSE IF 4 * x < 3 * ONE THEN LnShift(2 * x) + 1
    ELSE 0

\* math.log(x) in FINE-ths for a scale x in ONE-ths, 0 < x < 8 * ONE (the
\* caller handles the domain error): x = m / 2^k with m in [0.75, 1.5],
\* ln(m) = 2 * (z + z^3/3 + ... + z^15/15) for z = (m - 1) / (m + 1)
Ln(x) ==
    LET k  == LnShift(x)
        p  == Pow2(Abs(k))
        xs == IF k >= 0 THEN x * p ELSE x
        os == IF k >= 0 THEN ONE ELSE ONE * p
        z  == FineDiv(xs - os, xs + os)
    IN  2 * LnTerms(z, FineMul(z, z), 1, 15) - k * LN2

\* t*r/n + t*r^2/(n*(n+1)) + ... up to the power `last`: the terms of the
\* exponential's series from r^n/n! on, t being r^(n-1)/(n-1)!
RECURSIVE ExpTerms(_, _, _, _)
ExpTerms(t, r, n, last) ==
    IF n > last \/ t = 0 THEN 0
    ELSE LET u == RoundDiv(FineMul(t, r), n)
         IN  u + ExpTerms(u, r, n + 1, last)

\* math.exp(x), argument and result in FINE-ths: x = k*ln2 + r with
\* 0 <= r < ln2, exp(r) by its series, times 2^k
Exp(x) ==
    LET k == x \div LN2
        r == x % LN2
        s == FINE + ExpTerms(FINE, r, 1, 14)
        e == IF s > 2 * FINE THEN 2 * FINE ELSE s
    IN  IF k >= 0 THEN e * Pow2(k)
        ELSE IF -k >= 30 THEN 0
        ELSE RoundDiv(e, Pow2(-k))

\* ------------------------------------------------------------------- state
VARIABLES
    args,           \* the arguments of TriStageLRScheduler(...)
    pc,             \* "new": not yet constructed, "ready", "raised"
    err,            \* the exception __init__ raised, "none" if none
    attrs,          \* the attributes of self that have been assigned
    param_groups,   \* optimizer.param_groups: the 'lr' of each group
    frozen,         \* index of a group that rejects g['lr'] = ..., 0 if none
    lr, peak_lr, init_lr, final_lr,
    warmup_steps, hold_steps, decay_steps,
    warmup_rate, decay_factor,
    update_steps,
    last_lr,        \* self._last_lr (meaningful when "_last_lr" \in attrs)
    result,         \* the last call on the schedule: what it returned or raised,
                    \* and the loss it was passed
    calls,          \* history: one record per completed step() call
    before,         \* history: the state the last step() call started from
    threads         \* the position and locals of each concurrent step() call

sched == <<lr, peak_lr, init_lr, final_lr, warmup_steps, hold_steps,
           decay_steps, warmup_rate, decay_factor, update_steps, last_lr>>
vars == <<args, pc, err, attrs, param_groups, frozen, sched, result, calls,
          before, threads>>

WARMUP == 0
HOLD == 1
DECAY == 2
FINAL == 3

\* ------------------------------------------------------------------ inputs
\* rates the optimizer's groups hold before construction (differing per group)
GroupRate(i) == 300 * i
\* a rate written into a group from outside the schedule
ExtRate == 7777

PhaseRange == -NegPhase .. MaxPhase
RatioNums == {-2, 0, 1, 2, 3, 8}

ArgNames == {"warmup_steps", "hold_steps", "decay_steps", "total_steps"}

MkArgs(pk, isc, il, fsc, fl, pr, w, h, d, t, ni) ==
    [peak_lr |-> pk, init_lr_scale |-> isc, init_lr |-> il,
     final_lr_scale |-> fsc, final_lr |-> fl, phase_ratio |-> pr,
     warmup_steps |-> w, hold_steps |-> h, decay_steps |-> d,
     total_steps |-> t, nonint |-> ni]

\* explicit phase lengths, every combination, two rate configurations
StageArgs ==
    { MkArgs(10000, rc[1], 0, rc[2], 100, None, w, h, d, 0, "none") :
        rc \in {<<None, None>>, <<Some(2500), Some(20000)>>},
        w \in PhaseRange, h \in PhaseRange, d \in PhaseRange }

\* phase_ratio given: ratios in RatioDen-ths, with and without explicit lengths
RatioArgs ==
    { MkArgs(10000, None, 0, None, 100, Some(<<r1, r2, r3>>), e, e, e, t, "none") :
        r1 \in RatioNums, r2 \in RatioNums, r3 \in RatioNums,
        t \in -1 .. MaxTotal, e \in {0, 1} }

\* the rate arguments and the argument types, on one set of phase lengths
RateArgs ==
    { MkArgs(pk, isc, il, fsc, fl, None, 2, 1, 2, 0, ni) :
        pk \in {0, 10000},
        isc \in {None, Some(0), Some(5000)}, il \in {0, 2500},
        fsc \in {None, Some(0), Some(100)}, fl \in {0, 100},
        ni \in ArgNames \cup {"none"} }

AllArgs == StageArgs \cup RatioArgs \cup RateArgs

\* ------------------------------------------------------------ construction
\* The statements of __init__ that can raise, in execution order; CtorStop(a)
\* is the first one that raises for the arguments a (CtorDone: none does).
AtWarmupInt == 1      \* assert isinstance(warmup_steps, int)
AtTotalInt == 2       \* assert isinstance(total_steps, int)
AtInitScale == 3      \* assert init_lr_scale > 0
AtFinalScale == 4     \* assert final_lr_scale > 0
AtScaleDiv == 5       \* final_lr_scale = final_lr / peak_lr
AtTotalPos == 6       \* assert total_steps > 0
AtRatioSum == 7       \* assert sum(phase_ratio) == 1
AtStepsPos == 8       \* assert warmup_steps + hold_steps + decay_steps > 0
AtLog == 9            \* math.log(final_lr_scale)
AtDecayDiv == 10      \* ... / self.decay_steps
CtorDone == 11

\* self.init_lr as __init__ resolves it
ResolveInitLr(a) ==
    IF a.init_lr_scale # None THEN FMul(a.peak_lr, a.init_lr_scale[1])
    ELSE a.init_lr

\* self.final_lr as __init__ resolves it
ResolveFinalLr(a) ==
    IF a.final_lr_scale # None THEN FMul(a.peak_lr, a.final_lr_scale[1])
    ELSE a.final_lr

\* the local final_lr_scale after the second if/else (peak_lr # 0 when derived)
ResolveFinalScale(a) ==
    IF a.final_lr_scale # None THEN a.final_lr_scale[1]
    ELSE FDiv(a.final_lr, a.peak_lr)

\* sum(phase_ratio) == 1
RatioSumIsOne(r) == r[1] + r[2] + r[3] = RatioDen

\* <<self.warmup_steps, self.hold_steps, self.decay_steps>>
ResolveSteps(a) ==
    IF a.phase_ratio # None
    THEN LET r == a.phase_ratio[1]
         IN  <<TruncDiv(a.total_steps * r[1], RatioDen),
               TruncDiv(a.total_steps * r[2], RatioDen),
               TruncDiv(a.total_steps * r[3], RatioDen)>>
    ELSE <<a.warmup_steps, a.hold_steps, a.decay_steps>>

\* mutant: the assert dropped
StepsPositive_dropped(st) == TRUE

\* the assert on the resolved phase lengths
StepsPositive(st) == st[1] + st[2] + st[3] > 0

CtorStop(a) ==
    IF a.nonint = "warmup_steps" THEN AtWarmupInt
    ELSE IF a.nonint = "total_steps" THEN AtTotalInt
    ELSE IF a.init_lr_scale # None /\ ~(a.init_lr_scale[1] > 0) THEN AtInitScale
    ELSE IF a.final_lr_scale # None /\ ~(a.final_lr_scale[1] > 0) THEN AtFinalScale
    ELSE IF a.final_lr_scale = None /\ a.peak_lr = 0 THEN AtScaleDiv
    ELSE IF a.phase_ratio # None /\ ~(a.total_steps > 0) THEN AtTotalPos
    ELSE IF a.phase_ratio # None /\ ~RatioSumIsOne(a.phase_ratio[1]) THEN AtRatioSum
    ELSE LET st == ResolveSteps(a)
         IN  IF ~StepsPositive(st) THEN AtStepsPos
             ELSE IF ResolveFinalScale(a) <= 0 THEN AtLog
             ELSE IF st[3] = 0 THEN AtDecayDiv
             ELSE CtorDone

\* the exception each raising statement raises
CtorError(stop) ==
    IF stop = CtorDone THEN "none"
    ELSE IF stop \in {AtScaleDiv, AtDecayDiv} THEN "ZeroDivisionError"
    ELSE IF stop = AtLog THEN "ValueError"
    ELSE "AssertionError"

\* mutant: the constructor also initialises _last_lr
CtorAttrs_with_last_lr(stop) ==
    (IF stop > AtTotalInt THEN {"optimizer", "lr", "peak_lr", "_last_lr"} ELSE {})
    \cup (IF stop > AtInitScale THEN {"init_lr"} ELSE {})
    \cup (IF stop > AtFinalScale THEN {"final_lr"} ELSE {})
    \cup (IF stop > AtRatioSum THEN {"warmup_steps", "hold_steps", "decay_steps"} ELSE {})
    \cup (IF stop > AtStepsPos THEN {"warmup_rate"} ELSE {})
    \cup (IF stop > AtDecayDiv THEN {"decay_factor", "update_steps"} ELSE {})

\* the attributes assigned before execution reaches the statement `stop`
CtorAttrs(stop) ==
    (IF stop > AtTotalInt THEN {"optimizer", "lr", "peak_lr"} ELSE {})
    \cup (IF stop > AtInitScale THEN {"init_lr"} ELSE {})
    \cup (IF stop > AtFinalScale THEN {"final_lr"} ELSE {})
    \cup (IF stop > AtRatioSum THEN {"warmup_steps", "hold_steps", "decay_steps"} ELSE {})
    \cup (IF stop > AtStepsPos THEN {"warmup_rate"} ELSE {})
    \cup (IF stop > AtDecayDiv THEN {"decay_factor", "update_steps"} ELSE {})

\* mutant: the constructor applies its rate to the optimizer
ctor_groups_applied(groups, rate) == [i \in 1 .. Len(groups) |-> rate]

\* the optimizer's groups after __init__: LearningRateScheduler.__init__ only
\* stores the optimizer and the rate
ctor_groups(groups, rate) == groups

\* TriStageLRScheduler.__init__ (with LearningRateScheduler.__init__): runs
\* to the first raising statement or to the end; never touches param_groups.
Construct ==
    /\ pc = "new"
    /\ LET a    == args
           stop == CtorStop(a)
           st   == ResolveSteps(a)
           set  == CtorAttrs(stop)
       IN  /\ pc' = IF stop = CtorDone THEN "ready" ELSE "raised"
           /\ err' = CtorError(stop)
           /\ attrs' = set
           /\ peak_lr' = IF "peak_lr" \in set THEN a.peak_lr ELSE 0
           /\ init_lr' = IF "init_lr" \in set THEN ResolveInitLr(a) ELSE 0
           /\ final_lr' = IF "final_lr" \in set THEN ResolveFinalLr(a) ELSE 0
           /\ warmup_steps' = IF "warmup_steps" \in set THEN st[1] ELSE 0
           /\ hold_steps' = IF "hold_steps" \in set THEN st[2] ELSE 0
           /\ decay_steps' = IF "decay_steps" \in set THEN st[3] ELSE 0
           /\ warmup_rate' =
                IF "warmup_rate" \in set /\ st[1] # 0
                THEN RoundDiv((a.peak_lr - ResolveInitLr(a)) * ONE, st[1]) ELSE 0
           /\ decay_factor' =
                IF "decay_factor" \in set
                THEN RoundDiv(-Ln(ResolveFinalScale(a)), st[3]) ELSE 0
           /\ lr' = IF stop = CtorDone THEN ResolveInitLr(a)
                    ELSE IF "lr" \in set THEN a.peak_lr ELSE 0
           /\ update_steps' = 0
           /\ result' = [op |-> "__init__", raised |-> CtorError(stop),
                         rate |-> 0, rates |-> <<>>, loss |-> None]
           /\ param_groups' = ctor_groups(param_groups, a.peak_lr)
    /\ UNCHANGED <<args, frozen, last_lr, calls, before, threads>>

\* ---------------------------------------------------------------- stepping
\* mutant: the hold test made inclusive
decide_stage_hold_inclusive(n, w, h, d) ==
    IF n < w THEN <<WARMUP, n>>
    ELSE IF n <= w + h THEN <<HOLD, n - w>>
    ELSE IF n <= w + h + d THEN <<DECAY, n - (w + h)>>
    ELSE <<FINAL, n - (w + h + d)>>

\* mutant: the decay test made exclusive
decide_stage_decay_exclusive(n, w, h, d) ==
    IF n < w THEN <<WARMUP, n>>
    ELSE IF n < w + h THEN <<HOLD, n - w>>
    ELSE IF n < w + h + d THEN <<DECAY, n - (w + h)>>
    ELSE <<FINAL, n - (w + h + d)>>

\* TriStageLRScheduler._decide_stage: <<stage, steps_in_stage>>
decide_stage(n, w, h, d) ==
    IF n < w THEN <<WARMUP, n>>
    ELSE IF n < w + h THEN <<HOLD, n - w>>
    ELSE IF n <= w + h + d THEN <<DECAY, n - (w + h)>>
    ELSE <<FINAL, n - (w + h + d)>>

\* mutant: the offset counted from 1 in the computed stages
stage_rate_from_one(stage, steps_in_stage) ==
    IF stage = WARMUP THEN init_lr + RoundDiv(warmup_rate * (steps_in_stage + 1), ONE)
    ELSE IF stage = HOLD THEN peak_lr
    ELSE IF stage = DECAY
         THEN FineMul(peak_lr, Exp(-decay_factor * (steps_in_stage + 1)))
    ELSE final_lr

\* mutant: the hold stage keeps whatever rate the optimizer holds
stage_rate_hold_reads_optimizer(stage, steps_in_stage) ==
    IF stage = WARMUP THEN init_lr + RoundDiv(warmup_rate * steps_in_stage, ONE)
    ELSE IF stage = HOLD THEN param_groups[1]
    ELSE IF stage = DECAY THEN FineMul(peak_lr, Exp(-decay_factor * steps_in_stage))
    ELSE final_lr

\* the rate step() computes for a stage and an offset
stage_rate(stage, steps_in_stage) ==
    IF stage = WARMUP THEN init_lr + RoundDiv(warmup_rate * steps_in_stage, ONE)
    ELSE IF stage = HOLD THEN peak_lr
    ELSE IF stage = DECAY THEN FineMul(peak_lr, Exp(-decay_factor * steps_in_stage))
    ELSE final_lr

\* mutant: only the first group is written
set_lr_first_only(groups, rate) ==
    [i \in 1 .. Len(groups) |-> IF i = 1 THEN rate ELSE groups[i]]

\* LearningRateScheduler.set_lr: every group's 'lr' becomes rate
set_lr(groups, rate) == [i \in 1 .. Len(groups) |-> rate]

\* LearningRateScheduler.get_lr: the first group's 'lr'
get_lr(groups) == groups[1]

\* mutant: the counter stands still
next_update_steps_stuck(n) == n

\* self.update_steps += 1
next_update_steps(n) == n + 1

\* set_lr interrupted: the groups before group k are written, then the
\* assignment to group k raises
set_lr_partial(groups, rate, k) ==
    [i \in 1 .. Len(groups) |-> IF i < k THEN rate ELSE groups[i]]

\* TriStageLRScheduler.step(val_loss): val_loss is never read.  The training
\* loop makes at most MaxSteps calls, and at most MaxTail calls beyond the
\* schedule's total length.  self.lr is
\* assigned first, then set_lr writes the groups in order; if a group rejects
\* the assignment the call raises there (result.op "step" marks a call that
\* returned, "step_raised" one that raised).
Step(val_loss) ==
    /\ pc = "ready"
    /\ update_steps < MaxSteps
    /\ update_steps < warmup_steps + hold_steps + decay_steps + MaxTail
    /\ LET ds     == decide_stage(update_steps, warmup_steps, hold_steps, decay_steps)
           rate   == stage_rate(ds[1], ds[2])
           groups == set_lr(param_groups, rate)
       IN  /\ lr' = rate
           /\ before' = [param_groups |-> param_groups, lr |-> lr,
                         update_steps |-> update_steps]
           /\ IF frozen = 0
              THEN /\ param_groups' = groups
                   /\ update_steps' = next_update_steps(update_steps)
                   /\ last_lr' = groups
                   /\ attrs' = attrs \cup {"_last_lr"}
                   /\ result' = [op |-> "step", raised |-> "none",
                                 rate |-> rate, rates |-> <<>>,
                                 loss |-> val_loss]
                   /\ calls' = Append(calls,
                                  [count |-> update_steps, stage |-> ds[1],
                                   offset |-> ds[2], rate |-> rate])
              ELSE /\ param_groups' = set_lr_partial(param_groups, rate, frozen)
                   /\ result' = [op |-> "step_raised", raised |-> "TypeError",
                                 rate |-> 0, rates |-> <<>>,
                                 loss |-> val_loss]
                   /\ UNCHANGED <<update_steps, last_lr, attrs, calls>>
    /\ UNCHANGED <<args, pc, err, frozen, peak_lr, init_lr, final_lr,
                   warmup_steps, hold_steps, decay_steps, warmup_rate,
                   decay_factor, threads>>

\* get_lr() called by the training loop
GetLr ==
    /\ pc = "ready"
    /\ result' = [op |-> "get_lr", raised |-> "none",
                  rate |-> get_lr(param_groups), rates |-> <<>>, loss |-> None]
    /\ UNCHANGED <<args, pc, err, attrs, param_groups, frozen, sched, calls,
                   before, threads>>

\* get_last_lr() called by the training loop: self._last_lr, an AttributeError
\* while step() has not assigned it
GetLastLr ==
    /\ pc = "ready"
    /\ result' = IF "_last_lr" \in attrs
                 THEN [op |-> "get_last_lr", raised |-> "none", rate |-> 0,
                       rates |-> last_lr, loss |-> None]
                 ELSE [op |-> "get_last_lr", raised |-> "AttributeError",
                       rate |-> 0, rates |-> <<>>, loss |-> None]
    /\ UNCHANGED <<args, pc, err, attrs, param_groups, frozen, sched, calls,
                   before, threads>>

\* LearningRateScheduler.set_lr(optimizer, ExtRate) called directly (a static
\* method, callable whatever the state of the schedule): the groups are
\* written in order, and a group that rejects the assignment raises there
SetLr ==
    /\ param_groups' = IF frozen = 0 THEN set_lr(param_groups, ExtRate)
                       ELSE set_lr_partial(param_groups, ExtRate, frozen)
    /\ result' = [op |-> "set_lr",
                  raised |-> IF frozen = 0 THEN "none" ELSE "TypeError",
                  rate |-> 0, rates |-> <<>>, loss |-> None]
    /\ UNCHANGED <<args, pc, err, attrs, frozen, sched, calls, before, threads>>

\* the owner of the optimizer, which the schedule holds by reference, assigns
\* g['lr'] of one writable group itself (one such write between two calls
\* that write the groups)
ExternalWrite(i) ==
    /\ pc = "ready"
    /\ i \in 1 .. Len(param_groups)
    /\ i # frozen
    /\ \A j \in 1 .. Len(param_groups) : param_groups[j] # ExtRate
    /\ param_groups' = [param_groups EXCEPT ![i] = ExtRate]
    /\ UNCHANGED <<args, pc, err, attrs, frozen, sched, result, calls, before,
                   threads>>

\* ------------------------------------------------- concurrent step() calls
\* Two threads each call step() once on one schedule.  A call is split at
\* every read and write of self.update_steps, self.lr and a group's 'lr';
\* the reads of the immutable attributes and the arithmetic are local.
Threads == {1, 2}

\* a thread that has not called step(): its locals are unset
Idle == [pc |-> "idle", seen |-> 0, stage |-> 0, offset |-> 0, arg |-> 0,
         i |-> 0, tmp |-> 0, snap |-> <<>>, ret |-> 0]

\* thread t calls step()
T_Call(t) ==
    /\ pc = "ready" /\ frozen = 0
    /\ update_steps < MaxSteps
    /\ threads[t].pc = "idle"
    /\ threads' = [threads EXCEPT ![t].pc = "L130"]
    /\ UNCHANGED <<args, pc, err, attrs, param_groups, frozen, sched, result,
                   calls, before>>

\* _decide_stage: one comparison, on a fresh read of self.update_steps
T_Compare(t) ==
    /\ threads[t].pc \in {"L130", "L135", "L140"}
    /\ LET n    == update_steps
           at   == threads[t].pc
           goto == IF at = "L130"
                   THEN (IF n < warmup_steps THEN "L131" ELSE "L135")
                   ELSE IF at = "L135"
                   THEN (IF n < warmup_steps + hold_steps THEN "L136" ELSE "L140")
                   ELSE (IF n <= warmup_steps + hold_steps + decay_steps
                         THEN "L142" ELSE "L146")
       IN  threads' = [threads EXCEPT ![t].pc = goto]
    /\ UNCHANGED <<args, pc, err, attrs, param_groups, frozen, sched, result,
                   calls, before>>

\* _decide_stage: the return statement reads self.update_steps again
T_Return(t) ==
    /\ threads[t].pc \in {"L131", "L136", "L142", "L146"}
    /\ LET n   == update_steps
           at  == threads[t].pc
           stg == IF at = "L131" THEN WARMUP ELSE IF at = "L136" THEN HOLD
                  ELSE IF at = "L142" THEN DECAY ELSE FINAL
           off == IF at = "L131" THEN n
                  ELSE IF at = "L136" THEN n - warmup_steps
                  ELSE IF at = "L142" THEN n - (warmup_steps + hold_steps)
                  ELSE n - (warmup_steps + hold_steps + decay_steps)
       IN  threads' = [threads EXCEPT ![t].pc = "L151", ![t].seen = n,
                                      ![t].stage = stg, ![t].offset = off]
    /\ UNCHANGED <<args, pc, err, attrs, param_groups, frozen, sched, result,
                   calls, before>>

\* step: self.lr = the rate of the decided stage
T_WriteLr(t) ==
    /\ threads[t].pc = "L151"
    /\ lr' = stage_rate(threads[t].stage, threads[t].offset)
    /\ threads' = [threads EXCEPT ![t].pc = "L162"]
    /\ UNCHANGED <<args, pc, err, attrs, param_groups, frozen, peak_lr, init_lr,
                   final_lr, warmup_steps, hold_steps, decay_steps, warmup_rate,
                   decay_factor, update_steps, last_lr, result, calls, before>>

\* step: self.set_lr(self.optimizer, self.lr) reads self.lr for the argument
T_ReadLr(t) ==
    /\ threads[t].pc = "L162"
    /\ threads' = [threads EXCEPT ![t].pc = "L46", ![t].arg = lr, ![t].i = 1]
    /\ UNCHANGED <<args, pc, err, attrs, param_groups, frozen, sched, result,
                   calls, before>>

\* set_lr: g['lr'] = lr for the next group
T_WriteGroup(t) ==
    /\ threads[t].pc = "L46"
    /\ LET i == threads[t].i
       IN  /\ param_groups' = [param_groups EXCEPT ![i] = threads[t].arg]
           /\ threads' = [threads EXCEPT
                 ![t].pc = IF i = Len(param_groups) THEN "L163r" ELSE "L46",
                 ![t].i = i + 1]
    /\ UNCHANGED <<args, pc, err, attrs, frozen, sched, result, calls, before>>

\* step: self.update_steps += 1, the read
T_ReadCount(t) ==
    /\ threads[t].pc = "L163r"
    /\ threads' = [threads EXCEPT ![t].pc = "L163w", ![t].tmp = update_steps]
    /\ UNCHANGED <<args, pc, err, attrs, param_groups, frozen, sched, result,
                   calls, before>>

\* step: self.update_steps += 1, the write
T_WriteCount(t) ==
    /\ threads[t].pc = "L163w"
    /\ update_steps' = next_update_steps(threads[t].tmp)
    /\ threads' = [threads EXCEPT ![t].pc = "L164", ![t].i = 1]
    /\ UNCHANGED <<args, pc, err, attrs, param_groups, frozen, lr, peak_lr,
                   init_lr, final_lr, warmup_steps, hold_steps, decay_steps,
                   warmup_rate, decay_factor, last_lr, result, calls, before>>

\* step: the list comprehension reads the next group's 'lr'
T_ReadGroup(t) ==
    /\ threads[t].pc = "L164"
    /\ LET i == threads[t].i
       IN  threads' = [threads EXCEPT
                 ![t].pc = IF i = Len(param_groups) THEN "L164w" ELSE "L164",
                 ![t].snap = Append(threads[t].snap, param_groups[i]),
                 ![t].i = i + 1]
    /\ UNCHANGED <<args, pc, err, attrs, param_groups, frozen, sched, result,
                   calls, before>>

\* step: self._last_lr = the list read
T_WriteLast(t) ==
    /\ threads[t].pc = "L164w"
    /\ last_lr' = threads[t].snap
    /\ attrs' = attrs \cup {"_last_lr"}
    /\ threads' = [threads EXCEPT ![t].pc = "L166"]
    /\ UNCHANGED <<args, pc, err, param_groups, frozen, lr, peak_lr, init_lr,
                   final_lr, warmup_steps, hold_steps, decay_steps, warmup_rate,
                   decay_factor, update_steps, result, calls, before>>

\* step: return self.lr
T_ReturnLr(t) ==
    /\ threads[t].pc = "L166"
    /\ threads' = [threads EXCEPT ![t].pc = "done", ![t].ret = lr]
    /\ UNCHANGED <<args, pc, err, attrs, param_groups, frozen, sched, result,
                   calls, before>>

\* step() calls made one after the other before the two threads start
SequentialStep ==
    /\ \A t \in Threads : threads[t].pc = "idle"
    /\ \E val_loss \in {None} : Step(val_loss)

\* the configurations the concurrent calls are run on
RaceArgs ==
    { MkArgs(10000, None, 0, None, 100, None, 2, 1, 2, 0, "none"),
      MkArgs(10000, Some(2500), 0, Some(20000), 0, None, 1, 0, 1, 0, "none") }

InitRace ==
    /\ args \in RaceArgs
    /\ pc = "new"
    /\ err = "none"
    /\ attrs = {}
    /\ \E n \in 1 .. MaxGroups : param_groups = [i \in 1 .. n |-> GroupRate(i)]
    /\ frozen = 0
    /\ lr = 0 /\ peak_lr = 0 /\ init_lr = 0 /\ final_lr = 0
    /\ warmup_steps = 0 /\ hold_steps = 0 /\ decay_steps = 0
    /\ warmup_rate = 0 /\ decay_factor = 0
    /\ update_steps = 0
    /\ last_lr = <<>>
    /\ result = [op |-> "none", raised |-> "none", rate |-> 0, rates |-> <<>>,
                 loss |-> None]
    /\ calls = <<>>
    /\ before = [param_groups |-> <<>>, lr |-> 0, update_steps |-> 0]
    /\ threads = [t \in Threads |-> Idle]

NextRace ==
    \/ Construct
    \/ SequentialStep
    \/ \E t \in Threads :
          \/ T_Call(t)
          \/ T_Compare(t)
          \/ T_Return(t)
          \/ T_WriteLr(t)
          \/ T_ReadLr(t)
          \/ T_WriteGroup(t)
          \/ T_ReadCount(t)
          \/ T_WriteCount(t)
          \/ T_ReadGroup(t)
          \/ T_WriteLast(t)
          \/ T_ReturnLr(t)

SpecRace == InitRace /\ [][NextRace]_vars

\* ----------------------------------------------------------- specification
Init ==
    /\ args \in AllArgs
    /\ pc = "new"
    /\ err = "none"
    /\ attrs = {}
    /\ \E n \in 1 .. MaxGroups : param_groups = [i \in 1 .. n |-> GroupRate(i)]
    /\ frozen \in 0 .. Len(param_groups)
    /\ lr = 0 /\ peak_lr = 0 /\ init_lr = 0 /\ final_lr = 0
    /\ warmup_steps = 0 /\ hold_steps = 0 /\ decay_steps = 0
    /\ warmup_rate = 0 /\ decay_factor = 0
    /\ update_steps = 0
    /\ last_lr = <<>>
    /\ result = [op |-> "none", raised |-> "none", rate |-> 0, rates |-> <<>>,
                 loss |-> None]
    /\ calls = <<>>
    /\ before = [param_groups |-> <<>>, lr |-> 0, update_steps |-> 0]
    /\ threads = [t \in Threads |-> Idle]

Next ==
    \/ Construct
    \/ \E val_loss \in {None, Some(1)} : Step(val_loss)
    \/ GetLr
    \/ GetLastLr
    \/ SetLr
    \/ \E i \in 1 .. MaxGroups : ExternalWrite(i)

Spec == Init /\ [][Next]_vars

\* ================================================================== claims

Last(q) == q[Len(q)]
Ready == pc = "ready"
AllGroups(groups, rate) == \A i \in 1 .. Len(groups) : groups[i] = rate

\* ------------------------------------------------------------------------
\* C1: for every constructed schedule and every step_count n >= 0 the stage
\* decision is WARMUP with offset n iff n < warmup_steps, HOLD with offset
\* n - warmup_steps iff warmup_steps <= n < warmup_steps + hold_steps, DECAY
\* with offset n - warmup_steps - hold_steps iff warmup_steps + hold_steps
\* <= n <= warmup_steps + hold_steps + decay_steps, and FINAL with offset
\* n - warmup_steps - hold_steps - decay_steps otherwise.
C1_InWarmup(n) == n < warmup_steps
C1_InHold(n) == warmup_steps <= n /\ n < warmup_steps + hold_steps
C1_InDecay(n) ==
    /\ warmup_steps + hold_steps <= n
    /\ n <= warmup_steps + hold_steps + decay_steps

C1_Decision(c) ==
    LET n == c.count
    IN  /\ c.stage \in {WARMUP, HOLD, DECAY, FINAL}
        /\ (c.stage = WARMUP /\ c.offset = n) <=> C1_InWarmup(n)
        /\ (c.stage = HOLD /\ c.offset = n - warmup_steps) <=> C1_InHold(n)
        /\ (c.stage = DECAY /\ c.offset = n - warmup_steps - hold_steps)
              <=> C1_InDecay(n)
        /\ (c.stage = FINAL
              /\ c.offset = n - warmup_steps - hold_steps - decay_steps)
              <=> ~(C1_InWarmup(n) \/ C1_InHold(n) \/ C1_InDecay(n))

C1_StageDecision ==
    \A k \in 1 .. Len(calls) : C1_Decision(calls[k])

\* ------------------------------------------------------------------------
\* C2: the rate of every step() call is the one its stage and offset give,
\* the stage and offset being decided from the step_count held before the
\* call (the k-th call sees k - 1): init_lr + warmup_rate * offset in WARMUP,
\* peak_lr in HOLD (so at step_count = warmup_steps when hold_steps > 0),
\* peak_lr * exp(-decay_factor * offset) in DECAY, final_lr in FINAL; that
\* rate is what the call returns.
C2_RateOf(stage, offset) ==
    CASE stage = WARMUP -> init_lr + RoundDiv(warmup_rate * offset, ONE)
      [] stage = HOLD   -> peak_lr
      [] stage = DECAY  -> FineMul(peak_lr, Exp(-decay_factor * offset))
      [] stage = FINAL  -> final_lr

C2_RateByStage ==
    /\ \A k \in 1 .. Len(calls) :
          LET c == calls[k]
          IN  /\ c.count = k - 1
              /\ <<c.stage, c.offset>> =
                    decide_stage(c.count, warmup_steps, hold_steps, decay_steps)
              /\ c.rate = C2_RateOf(c.stage, c.offset)
              /\ (c.count = warmup_steps /\ hold_steps > 0) => c.rate = peak_lr
    /\ result.op = "step" => result.rate = Last(calls).rate

\* a run that has been through all four stages, the last call just returned
C2_Witness ==
    /\ result.op = "step"
    /\ \A st \in {WARMUP, HOLD, DECAY, FINAL} :
          \E k \in 1 .. Len(calls) : calls[k].stage = st
    /\ \E k \in 1 .. Len(calls) :
          calls[k].stage = DECAY /\ calls[k].offset > 0 /\ calls[k].rate < peak_lr

\* ------------------------------------------------------------------------
\* C3: FINAL is absorbing: after a step() call classified FINAL every later
\* call is classified FINAL and returns final_lr, and each such call leaves
\* every parameter group's rate equal to final_lr.
C3_Later ==
    \A j \in 1 .. Len(calls) : \A k \in j + 1 .. Len(calls) :
        calls[j].stage = FINAL =>
            calls[k].stage = FINAL /\ calls[k].rate = final_lr

C3_StepInFinal ==
    (calls # <<>> /\ Last(calls).stage = FINAL /\ calls' # calls) =>
        /\ Last(calls').stage = FINAL
        /\ result'.op = "step" /\ result'.rate = final_lr
        /\ AllGroups(param_groups', final_lr)

C3_FinalAbsorbing == [](C3_Later) /\ [][C3_StepInFinal]_vars

\* three FINAL calls in a row, the last one over an externally written rate
C3_Witness ==
    /\ Len(calls) >= 3
    /\ \A k \in Len(calls) - 2 .. Len(calls) : calls[k].stage = FINAL
    /\ result.op = "step"
    /\ \E i \in 1 .. Len(before.param_groups) : before.param_groups[i] = ExtRate
    /\ Len(param_groups) > 1
    /\ AllGroups(param_groups, final_lr)

\* ------------------------------------------------------------------------
\* C4: the stages of successive step() calls never move backwards in the
\* order WARMUP, HOLD, DECAY, FINAL, and no call is classified into a phase
\* whose configured length is 0.
C4_Length(stage) ==
    CASE stage = WARMUP -> warmup_steps
      [] stage = HOLD   -> hold_steps
      [] stage = DECAY  -> decay_steps

C4_Monotonic ==
    /\ \A j \in 1 .. Len(calls) : \A k \in j .. Len(calls) :
          calls[j].stage <= calls[k].stage
    /\ \A k \in 1 .. Len(calls) :
          calls[k].stage # FINAL => C4_Length(calls[k].stage) # 0

\* a schedule without hold phase that went from WARMUP to DECAY to FINAL
C4_Witness ==
    /\ Ready /\ hold_steps = 0 /\ warmup_steps > 0
    /\ \E k \in 1 .. Len(calls) - 1 :
          calls[k].stage = WARMUP /\ calls[k + 1].stage = DECAY
    /\ calls # <<>> /\ Last(calls).stage = FINAL

\* ------------------------------------------------------------------------
\* C5: with peak_rate=1e-3, init_rate=0, final_rate=1e-5, warmup_steps=2,
\* hold_steps=1, decay_steps=2 the first six step() calls return the warmup
\* values at offsets 0 and 1 (0.0 and 5e-4), peak_rate (hold), then the decay
\* values at offsets 0, 1 and 2: the fourth call returns peak_rate again, the
\* fifth peak_rate*exp(-decay_factor) (1e-4), the sixth the decay value at
\* offset decay_steps (1e-5 up to rounding), still classified DECAY.
C5_Args == MkArgs(10000, None, 0, None, 100, None, 2, 1, 2, 0, "none")

C5_Decay(offset) == FineMul(peak_lr, Exp(-decay_factor * offset))

C5_Call(k, stage, offset, rate) ==
    Len(calls) >= k =>
        calls[k].stage = stage /\ calls[k].offset = offset /\ calls[k].rate = rate

C5_Scenario ==
    (Ready /\ args = C5_Args) =>
        /\ C5_Call(1, WARMUP, 0, 0)
        /\ C5_Call(2, WARMUP, 1, 5000)
        /\ C5_Call(3, HOLD, 0, peak_lr)
        /\ C5_Call(4, DECAY, 0, peak_lr)
        /\ C5_Call(5, DECAY, 1, C5_Decay(1))
        /\ C5_Call(6, DECAY, 2, C5_Decay(2))
        /\ Abs(C5_Decay(1) - 1000) <= 1
        /\ Abs(C5_Decay(2) - final_lr) <= 1

C5_Witness == Ready /\ args = C5_Args /\ Len(calls) = 6 /\ result.op = "step"

\* C5 as stated: call 4 returns the decay value at offset 1, call 5
\* final_rate or the decay value at offset decay_steps, call 6 final_rate.
C5_Original ==
    (Ready /\ args = C5_Args) =>
        /\ Len(calls) >= 1 => calls[1].rate = 0
        /\ Len(calls) >= 2 => calls[2].rate = 5000
        /\ Len(calls) >= 3 => calls[3].rate = peak_lr
        /\ Len(calls) >= 4 => calls[4].rate = C5_Decay(1)
        /\ Len(calls) >= 5 =>
              calls[5].rate \in {final_lr, C5_Decay(decay_steps)}
        /\ Len(calls) >= 6 => calls[6].rate = final_lr

\* ------------------------------------------------------------------------
\* C6: after exactly N = warmup_steps + hold_steps + decay_steps + 5 step()
\* calls, the first of the last 5 calls (step_count N - 5) is never FINAL;
\* each of the last 4 is FINAL, returning exactly final_lr, iff its
\* step_count is at least warmup_steps and at least warmup_steps +
\* hold_steps; with no negative phase length the first of the five is DECAY
\* at offset decay_steps and the last 4 are all FINAL and equal final_lr.
C6_N == warmup_steps + hold_steps + decay_steps + 5

C6_LastFour ==
    (Ready /\ Len(calls) = C6_N) =>
        /\ calls[C6_N - 4].stage # FINAL
        /\ \A k \in C6_N - 3 .. C6_N :
              /\ calls[k].stage = FINAL <=>
                    /\ calls[k].count >= warmup_steps
                    /\ calls[k].count >= warmup_steps + hold_steps
              /\ calls[k].stage = FINAL => calls[k].rate = final_lr
        /\ (warmup_steps >= 0 /\ hold_steps >= 0 /\ decay_steps >= 0) =>
              /\ calls[C6_N - 4].stage = DECAY
              /\ calls[C6_N - 4].offset = decay_steps
              /\ calls[C6_N - 4].rate = C5_Decay(decay_steps)
              /\ \A k \in C6_N - 3 .. C6_N :
                    calls[k].stage = FINAL /\ calls[k].rate = final_lr

\* N calls made on a schedule with three phases of positive length
C6_Witness ==
    /\ Ready /\ Len(calls) = C6_N
    /\ warmup_steps > 0 /\ hold_steps > 0 /\ decay_steps > 0
    /\ calls[C6_N - 4].stage = DECAY /\ Last(calls).stage = FINAL

\* C6 as stated: the last 5 of the N calls are all computed as final_rate.
C6_Original ==
    (Ready /\ Len(calls) = C6_N) =>
        \A k \in C6_N - 4 .. C6_N :
            calls[k].stage = FINAL /\ calls[k].rate = final_lr

\* ------------------------------------------------------------------------
\* C7: when a step() call returns, every parameter group's rate, self.lr,
\* get_lr() and every entry of get_last_lr() (one per group, in group order)
\* equal the rate it returned, whatever the groups held before the call.
C7_AfterStep ==
    calls' # calls =>
        LET r == result'.rate
        IN  /\ result'.op = "step" /\ result'.raised = "none"
            /\ Len(param_groups') = Len(param_groups)
            /\ AllGroups(param_groups', r)
            /\ lr' = r
            /\ get_lr(param_groups') = r
            /\ "_last_lr" \in attrs'
            /\ Len(last_lr') = Len(param_groups')
            /\ AllGroups(last_lr', r)

C7_Accessors ==
    /\ (result'.op = "get_lr" /\ result' # result) =>
          result'.rate = param_groups[1]
    /\ (result'.op = "get_last_lr" /\ result' # result /\ "_last_lr" \in attrs) =>
          result'.raised = "none" /\ result'.rates = last_lr

C7_StepSync == [][C7_AfterStep /\ C7_Accessors]_vars

\* a step over two groups that held different rates, one written externally
C7_Witness ==
    /\ result.op = "step"
    /\ Len(param_groups) = 2
    /\ before.param_groups[1] = ExtRate
    /\ before.param_groups[2] # ExtRate
    /\ before.param_groups[2] # result.rate
    /\ AllGroups(param_groups, result.rate)
    /\ last_lr = <<result.rate, result.rate>>

\* ------------------------------------------------------------------------
\* C8: update_steps is 0 after construction, grows by exactly 1 on every
\* step() call, is changed by nothing else (get_lr, get_last_lr, external
\* writes), so after k completed step() calls it equals k.
C8_CountsCalls == Ready => update_steps = Len(calls)

C8_OnlyStep ==
    /\ (pc = "new" /\ pc' = "ready") => update_steps' = 0
    /\ (Ready /\ calls' # calls) => update_steps' = update_steps + 1
    /\ (Ready /\ calls' = calls) => update_steps' = update_steps

C8_StepCount == [](C8_CountsCalls) /\ [][C8_OnlyStep]_vars

\* accessors called after three completed steps
C8_Witness ==
    /\ Ready /\ Len(calls) = 3 /\ update_steps = 3
    /\ result.op = "get_last_lr" /\ result.raised = "none"

\* ------------------------------------------------------------------------
\* C9: construction whose three phase lengths resolve to 0 (explicitly, or
\* because every total_steps * ratio truncates to 0) raises the assertion
\* error, and every constructed schedule has
\* warmup_steps + hold_steps + decay_steps > 0.
C9_AllZero ==
    IF args.phase_ratio = None
    THEN args.warmup_steps = 0 /\ args.hold_steps = 0 /\ args.decay_steps = 0
    ELSE \A i \in 1 .. 3 :
            Abs(args.total_steps * args.phase_ratio[1][i]) < RatioDen

C9_ZeroLengthsRejected ==
    /\ (pc # "new" /\ C9_AllZero) => pc = "raised" /\ err = "AssertionError"
    /\ Ready => warmup_steps + hold_steps + decay_steps > 0

\* ratios summing to 1 that all truncate to 0, rejected at the length check
C9_Witness ==
    /\ pc = "raised" /\ err = "AssertionError"
    /\ args.phase_ratio # None /\ args.total_steps > 0
    /\ RatioSumIsOne(args.phase_ratio[1])
    /\ C9_AllZero
    /\ "warmup_steps" \in attrs

\* ------------------------------------------------------------------------
\* C10: with phase_ratio given, construction raises the assertion error if
\* total_steps <= 0 or the ratios do not sum to 1; otherwise the explicit
\* lengths are ignored, each length is int(total_steps * ratio_i), and the
\* three lengths of the schedule sum to at most total_steps.
C10_Ratio(i) == args.phase_ratio[1][i]

C10_RatioLengths ==
    (pc # "new" /\ args.phase_ratio # None) =>
        IF args.total_steps <= 0
              \/ C10_Ratio(1) + C10_Ratio(2) + C10_Ratio(3) # RatioDen
        THEN pc = "raised" /\ err = "AssertionError"
        ELSE /\ warmup_steps = TruncDiv(args.total_steps * C10_Ratio(1), RatioDen)
             /\ hold_steps = TruncDiv(args.total_steps * C10_Ratio(2), RatioDen)
             /\ decay_steps = TruncDiv(args.total_steps * C10_Ratio(3), RatioDen)
             /\ Ready =>
                   warmup_steps + hold_steps + decay_steps <= args.total_steps

\* ------------------------------------------------------------------------
\* C11: step() has no partial-failure mode: a call either returns, having
\* updated self.lr, every group's rate, update_steps and _last_lr, or raises
\* with self.lr, update_steps, _last_lr and every group's rate unchanged,
\* also when the failure arises while writing the optimizer's groups.
C11_Returned ==
    /\ result'.op = "step" /\ result'.raised = "none"
    /\ lr' = result'.rate
    /\ AllGroups(param_groups', result'.rate)
    /\ update_steps' = update_steps + 1
    /\ "_last_lr" \in attrs' /\ last_lr' = param_groups'

C11_RaisedClean ==
    /\ result'.raised # "none"
    /\ lr' = lr
    /\ update_steps' = update_steps
    /\ last_lr' = last_lr /\ attrs' = attrs
    /\ param_groups' = param_groups

C11_NoPartialFailure ==
    [][(\E v \in {None, Some(1)} : Step(v)) => (C11_Returned \/ C11_RaisedClean)]_vars

\* ------------------------------------------------------------------------
\* C12: the stage and the rate of the k-th step() call are a function of the
\* constructor's arguments and k alone: whatever loss was passed and whatever
\* was written into the groups between the calls, the k-th call of every run
\* of one configuration has the same stage and returns the same rate.
C12_DecayFactor ==
    RoundDiv(-Ln(ResolveFinalScale(args)), ResolveSteps(args)[3])

C12_Expected(k, df) ==
    LET st   == ResolveSteps(args)
        ini  == ResolveInitLr(args)
        wr   == IF st[1] # 0 THEN RoundDiv((args.peak_lr - ini) * ONE, st[1]) ELSE 0
        ds   == decide_stage(k - 1, st[1], st[2], st[3])
        rate == CASE ds[1] = WARMUP -> ini + RoundDiv(wr * ds[2], ONE)
                  [] ds[1] = HOLD   -> args.peak_lr
                  [] ds[1] = DECAY  -> FineMul(args.peak_lr, Exp(-df * ds[2]))
                  [] ds[1] = FINAL  -> ResolveFinalLr(args)
    IN  <<ds[1], rate>>

C12_ConfigAndCountOnly ==
    calls # <<>> =>
        LET df == C12_DecayFactor
        IN  /\ \A k \in 1 .. Len(calls) :
                  <<calls[k].stage, calls[k].rate>> = C12_Expected(k, df)
            /\ (result.op = "step" /\ result.raised = "none") =>
                  result.rate = C12_Expected(Len(calls), df)[2]

\* a hold-stage call made with a loss, over an externally written first group
C12_Witness ==
    /\ result.op = "step" /\ result.loss # None
    /\ Len(calls) >= 2 /\ Last(calls).stage = HOLD
    /\ before.param_groups[1] = ExtRate
    /\ result.rate = peak_lr /\ result.rate # ExtRate

\* ------------------------------------------------------------------------
\* C13: construction raises only in the listed configuration-error cases, so
\* every configuration with positive peak_lr, integer phase lengths that are
\* non-negative with at least one positive, no phase_ratio, and init_lr and
\* final_lr defaulted (0) or given directly, constructs successfully with
\* warmup_rate and decay_factor defined.
C13_Listed ==
    /\ args.peak_lr > 0
    /\ args.init_lr_scale = None /\ args.final_lr_scale = None
    /\ args.phase_ratio = None /\ args.nonint = "none"
    /\ args.warmup_steps >= 0 /\ args.hold_steps >= 0 /\ args.decay_steps >= 0
    /\ args.warmup_steps + args.hold_steps + args.decay_steps > 0

C13_ValidConstructs ==
    (pc # "new" /\ C13_Listed) =>
        /\ Ready /\ err = "none"
        /\ {"warmup_rate", "decay_factor"} \subseteq attrs

\* ------------------------------------------------------------------------
\* C14: in every constructed schedule warmup_steps, hold_steps and
\* decay_steps are non-negative integers (no construction given a negative
\* phase length succeeds) and keep the values construction gave them.
C14_NonNegativeLengths ==
    Ready =>
        /\ warmup_steps >= 0 /\ hold_steps >= 0 /\ decay_steps >= 0
        /\ <<warmup_steps, hold_steps, decay_steps>> = ResolveSteps(args)

\* ------------------------------------------------------------------------
\* C15: construction with a non-integer warmup_steps, hold_steps,
\* decay_steps or total_steps raises the assertion error before any
\* attribute of the schedule is set.
C15_NonIntegerRejected ==
    (pc # "new" /\ args.nonint # "none") =>
        pc = "raised" /\ err = "AssertionError" /\ attrs = {}

\* ------------------------------------------------------------------------
\* C17: from a fresh schedule the k-th step() call is classified from
\* update_steps = k - 1, so exactly warmup_steps calls are WARMUP, exactly
\* hold_steps are HOLD, exactly decay_steps + 1 are DECAY, and the first
\* FINAL call is call number warmup_steps + hold_steps + decay_steps + 2.
C17_Count(stage) == Cardinality({k \in 1 .. Len(calls) : calls[k].stage = stage})

C17_CallCounts ==
    /\ \A k \in 1 .. Len(calls) : calls[k].count = k - 1
    /\ (calls # <<>> /\ Last(calls).stage = FINAL) =>
          /\ C17_Count(WARMUP) = warmup_steps
          /\ C17_Count(HOLD) = hold_steps
          /\ C17_Count(DECAY) = decay_steps + 1
          /\ \A k \in 1 .. Len(calls) :
                calls[k].stage = FINAL <=>
                    k >= warmup_steps + hold_steps + decay_steps + 2

\* ------------------------------------------------------------------------
\* C18: construction, successful or not, writes no parameter group; until
\* the first step() call get_lr() returns the rate the first group already
\* held (or one written from outside), which can differ from self.lr
\* (= init_lr); of the schedule's operations only step() writes the groups.
C18_NoStepYet == before.param_groups = <<>>

C18_Untouched ==
    /\ C18_NoStepYet =>
          \A i \in 1 .. Len(param_groups) :
              param_groups[i] \in {GroupRate(i), ExtRate}
    /\ (Ready /\ C18_NoStepYet) => lr = init_lr
    /\ (result.op = "get_lr" /\ C18_NoStepYet) =>
          result.rate \in {GroupRate(1), ExtRate}

C18_Frame ==
    (Construct \/ GetLr \/ GetLastLr) => param_groups' = param_groups

C18_ConstructionWritesNothing == [](C18_Untouched) /\ [][C18_Frame]_vars

\* get_lr() before the first step(): the optimizer's own rate, not init_lr
C18_Witness ==
    /\ Ready /\ C18_NoStepYet
    /\ result.op = "get_lr" /\ result.rate = GroupRate(1)
    /\ lr = init_lr /\ result.rate # lr
    /\ \A i \in 1 .. Len(param_groups) : param_groups[i] = GroupRate(i)

\* ------------------------------------------------------------------------
\* C19: _last_lr does not exist until the first step() call completes:
\* get_last_lr() on a constructed schedule raises AttributeError before, and
\* afterwards returns the snapshot of the most recent completed step(), one
\* entry per group.
C19_Exists ==
    /\ Ready => ("_last_lr" \in attrs <=> calls # <<>>)
    /\ ~Ready => "_last_lr" \notin attrs

C19_Get ==
    GetLastLr =>
        IF calls = <<>>
        THEN result'.raised = "AttributeError" /\ result'.rates = <<>>
        ELSE /\ result'.raised = "none"
             /\ result'.rates =
                   [i \in 1 .. Len(param_groups) |-> Last(calls).rate]

C19_LastLrAfterFirstStep == [](C19_Exists) /\ [][C19_Get]_vars

\* get_last_lr() raising on a constructed schedule that has not stepped
C19_Witness ==
    /\ Ready /\ calls = <<>>
    /\ result.op = "get_last_lr" /\ result.raised = "AttributeError"

\* C16: two threads that each call step() once on one schedule race.  Every
\* outcome advances update_steps by 1 or by 2, each call decides its stage
\* from the count before the calls or from that count plus one, and the count
\* advances by 1 only, one increment being lost, exactly when both calls
\* read the same count at line 163.  The outcome in which an increment is
\* lost and both calls computed the rate of the same count is reachable.
C16_BothDone == \A t \in Threads : threads[t].pc = "done"

C16_Base == Len(calls)

C16_RateAt(n) ==
    LET ds == decide_stage(n, warmup_steps, hold_steps, decay_steps)
    IN  stage_rate(ds[1], ds[2])

C16_RaceOutcomes ==
    C16_BothDone =>
        /\ update_steps \in {C16_Base + 1, C16_Base + 2}
        /\ \A t \in Threads : threads[t].seen \in {C16_Base, C16_Base + 1}
        /\ (update_steps = C16_Base + 1) <=> (threads[1].tmp = threads[2].tmp)

C16_Witness ==
    /\ C16_BothDone
    /\ update_steps = C16_Base + 1
    /\ \A t \in Threads : /\ threads[t].seen = C16_Base
                          /\ threads[t].ret = C16_RateAt(C16_Base)
    /\ C16_RateAt(C16_Base + 1) # C16_RateAt(C16_Base)
    /\ AllGroups(param_groups, C16_RateAt(C16_Base))
====
